---------------------------- MODULE Spec2Model ----------------------------
(***************************************************************************)
(* A model of the figure-extraction scripts under scripts/:                *)
(*   extract_fig1.py            (HTML publication table, no write-back)     *)
(*   extract_fig1_yaml.py       (publications.yml, year filter)             *)
(*   extract_remaining_figs.py  (publications.yml, manual URL table)        *)
(*                                                                         *)
(* Three specifications share the module:                                  *)
(*   SpecResolve  the link resolvers applied to a bounded link list;       *)
(*   SpecExtract  extract_first_image_from_pdf applied to a bounded        *)
(*                document;                                                *)
(*   Spec         the batch loop of the YAML scripts, run repeatedly on    *)
(*                the same data file and images directory.                 *)
(*                                                                         *)
(* Python strings are modelled as sequences of tokens (a token stands for  *)
(* a run of characters that the scripts never split); the string           *)
(* operations below work on such sequences the way str does on characters. *)
(***************************************************************************)
EXTENDS Naturals, Sequences, FiniteSets

VARIABLES
    \* SpecResolve
    rpaper,        \* the record handed to the resolvers (input)
    ryaml,         \* outcome of find_pdf_url on it
    rhtml,         \* outcome of find_pdf_link + normalize_pdf_url on its hrefs
    \* SpecExtract
    doc,           \* the document (input): a sequence of pages
    eyaml,         \* outcome of extract_fig1_yaml.extract_first_image_from_pdf
    eremaining,    \* outcome of extract_remaining_figs.extract_first_image_from_pdf
    efig1,         \* outcome of extract_fig1.extract_first_image_from_pdf
    \* Spec: the batch loop of the YAML scripts
    yamlFile,      \* _data/publications.yml: the list of records it holds
    imagesDir,     \* images/publications: the names of the files in it
    script,        \* which script the current run executes
    publications,  \* the in-memory list of the current run
    pc,            \* position of the run: idle, loop, fetch, extract, save
    idx,           \* 1-based position of the loop in publications
    pdf_url,       \* the URL resolved for the current record
    updated,       \* main's 'updated' flag
    tmpdir,        \* whether the record's TemporaryDirectory exists
    \* Spec: what is observed of the runs
    rerun,         \* whether the current run follows an earlier run
    startFile,     \* yamlFile as the current run loaded it
    visited,       \* positions whose loop body was entered in this run
    writes,        \* writes of yamlFile in this run
    ended,         \* how the latest run ended: done, crashed, exited
    last           \* how the handling of the latest handled record ended

-----------------------------------------------------------------------------
(* Python values *)

\* Python's None, where a string is expected.
None == <<"<None>">>

\* Outcome of a call that has not been made yet.
NotRun == [raised |-> FALSE, value |-> <<"<not run>">>]

Returned(v) == [raised |-> FALSE, value |-> v]

\* The call raised an exception.
Raised == [raised |-> TRUE, value |-> None]

\* Python truthiness of a str-or-None value.
Truthy(s) == s # None /\ s # <<>>

-----------------------------------------------------------------------------
(* str operations, on token sequences *)

StartsWith(s, p) ==
    /\ Len(p) <= Len(s)
    /\ SubSeq(s, 1, Len(p)) = p

EndsWith(s, p) ==
    /\ Len(p) <= Len(s)
    /\ SubSeq(s, Len(s) - Len(p) + 1, Len(s)) = p

\* p in s
Contains(s, p) ==
    \E i \in 1..(Len(s) + 1) :
        /\ i + Len(p) - 1 <= Len(s)
        /\ SubSeq(s, i, i + Len(p) - 1) = p

\* s.replace(old, new): every non-overlapping occurrence, left to right.
RECURSIVE Replace(_, _, _)
Replace(s, old, new) ==
    IF Len(s) < Len(old) \/ old = <<>> THEN s
    ELSE IF SubSeq(s, 1, Len(old)) = old
         THEN new \o Replace(SubSeq(s, Len(old) + 1, Len(s)), old, new)
         ELSE <<Head(s)>> \o Replace(Tail(s), old, new)

-----------------------------------------------------------------------------
(* String literals of the scripts *)

Lit_http      == <<"http">>
Lit_arxiv_org == <<"arxiv.org">>
Lit_abs       == <<"/", "abs", "/">>
Lit_pdfseg    == <<"/", "pdf", "/">>
Lit_dotpdf    == <<".", "pdf">>
Lit_pdf       == <<"pdf">>
Lit_arxiv_abs == <<"arxiv.org", "/", "abs">>
Lit_arxiv_pdf == <<"arxiv.org", "/", "pdf">>
Lit_openreview == <<"openreview.net">>
SiteBase      == <<"http", "s:", "/", "/", "xiaocw11.github.io">>

-----------------------------------------------------------------------------
(* Link resolvers *)

\* dict.get(key) with None for an absent key.
Get(d, key) == IF key \in DOMAIN d THEN d[key] ELSE None

\* extract_fig1_yaml.find_pdf_url: the loop over paper['links'], from link i on.
\* A url of None makes the test 'arxiv.org' in url raise TypeError.
RECURSIVE find_pdf_url_from(_, _)
find_pdf_url_from(links, i) ==
    IF i > Len(links) THEN Returned(None)
    ELSE LET link_type == links[i].type
             url == links[i].url
         IN IF link_type = "arxiv" /\ url = None THEN Raised
            ELSE IF link_type = "arxiv" /\ Contains(url, Lit_arxiv_org)
                 THEN IF Contains(url, Lit_abs)
                      THEN Returned(Replace(url, Lit_abs, Lit_pdfseg) \o Lit_dotpdf)
                      ELSE Returned(url)
            ELSE IF link_type = "pdf" THEN Returned(url)
            ELSE find_pdf_url_from(links, i + 1)

\* Variant: a 'pdf' link anywhere in the list wins over every 'arxiv' link.
find_pdf_url_pdf_first(paper) ==
    IF "links" \notin DOMAIN paper THEN Returned(None)
    ELSE LET links == paper["links"]
             pdfs == {i \in 1..Len(links) : links[i].type = "pdf"}
         IN IF pdfs # {}
            THEN Returned(links[CHOOSE i \in pdfs : \A j \in pdfs : i <= j].url)
            ELSE find_pdf_url_from(links, 1)

\* extract_fig1_yaml.find_pdf_url
find_pdf_url(paper) ==
    IF "links" \notin DOMAIN paper THEN Returned(None)
    ELSE find_pdf_url_from(paper["links"], 1)

\* extract_fig1.find_pdf_link over the row's <a href> values, from i on.
RECURSIVE find_pdf_link_from(_, _)
find_pdf_link_from(hrefs, i) ==
    IF i > Len(hrefs) THEN None
    ELSE LET href == hrefs[i]
         IN IF \/ Contains(href, Lit_pdf)
               \/ Contains(href, Lit_arxiv_abs)
               \/ Contains(href, Lit_openreview)
               \/ EndsWith(href, Lit_dotpdf)
            THEN href
            ELSE find_pdf_link_from(hrefs, i + 1)

find_pdf_link(hrefs) == find_pdf_link_from(hrefs, 1)

\* extract_fig1.normalize_pdf_url.  The conditional expression binds looser
\* than '+': an abs link already ending in '.pdf' is returned as it is.
normalize_pdf_url(href) ==
    IF StartsWith(href, Lit_http)
    THEN IF Contains(href, Lit_arxiv_abs)
         THEN IF ~EndsWith(href, Lit_dotpdf)
              THEN Replace(href, Lit_arxiv_abs, Lit_arxiv_pdf) \o Lit_dotpdf
              ELSE href
         ELSE href
    ELSE SiteBase \o href


-----------------------------------------------------------------------------
(* Figure extractor *)

\* extract_fig1_yaml.py:71, range(min(3, len(doc)))
LookaheadPages == 3

\* extract_fig1_yaml.py:82, len(img_bytes) < 10000
SizeThreshold == 10000

\* Where an exception may surface inside extract_first_image_from_pdf:
\*   "open"   fitz.open rejects the downloaded bytes;
\*   "write"  the output file has been opened ('wb' creates it) and writing
\*            the bytes, or saving the pixmap, fails.
Faults == {"none", "open", "write"}

NoSource == <<0, 0>>

\* What one call did: ret is "True", "False" or "raise"; kind tells which tier
\* produced the file; src is <<page, index>> of the embedded image saved;
\* wrote is the set of suffixes out_path.with_suffix was opened with.
Outcome(ret, kind, src, wrote) ==
    [ret |-> ret, kind |-> kind, src |-> src, wrote |-> wrote]

NotExtracted == Outcome("<not run>", "none", NoSource, {})

Min(a, b) == IF a < b THEN a ELSE b

\* Variant: an image of exactly the threshold size is skipped too.
TooSmall_le(size) == size <= SizeThreshold

\* extract_fig1_yaml.py:82, the filter on an image's encoded size.
TooSmall(size) == size < SizeThreshold

\* Variant: every page is scanned.
Window_all(d) == Len(d)

\* extract_fig1_yaml.py:71, the pages scanned.
Window(d) == Min(LookaheadPages, Len(d))

\* Saving a file with suffix ext: the file exists from the open on, and the
\* call returns True unless the write fails.
Save(kind, src, ext, fault) ==
    Outcome(IF fault = "write" THEN "raise" ELSE "True", kind, src, {ext})

\* Lines 95-105: render page 1 when there is one.
Fallback(d, fault) ==
    IF Len(d) > 0 THEN Save("raster", NoSource, "png", fault)
    ELSE Outcome("False", "none", NoSource, {})

\* Lines 71-93: the two nested loops, from image i of page p on.
RECURSIVE ScanWindow(_, _, _, _)
ScanWindow(d, p, i, fault) ==
    IF p > Window(d) THEN Fallback(d, fault)
    ELSE IF i > Len(d[p]) THEN ScanWindow(d, p + 1, 1, fault)
    ELSE IF TooSmall(d[p][i].size) THEN ScanWindow(d, p, i + 1, fault)
    ELSE Save("embedded", <<p, i>>, d[p][i].ext, fault)

\* extract_fig1_yaml.extract_first_image_from_pdf
extract_first_image_from_pdf(d, fault) ==
    IF fault = "open" THEN Outcome("raise", "none", NoSource, {})
    ELSE ScanWindow(d, 1, 1, fault)

\* extract_remaining_figs.extract_first_image_from_pdf: the same statements.
extract_first_image_from_pdf_remaining(d, fault) ==
    IF fault = "open" THEN Outcome("raise", "none", NoSource, {})
    ELSE ScanWindow(d, 1, 1, fault)

\* extract_fig1.py:67-77: every page, and only images[0] of a page that has
\* images, whatever its size.
RECURSIVE ScanAll(_, _, _)
ScanAll(d, p, fault) ==
    IF p > Len(d) THEN Fallback(d, fault)
    ELSE IF d[p] # <<>> THEN Save("embedded", <<p, 1>>, d[p][1].ext, fault)
    ELSE ScanAll(d, p + 1, fault)

\* extract_fig1.extract_first_image_from_pdf
extract_first_image_from_pdf_fig1(d, fault) ==
    IF fault = "open" THEN Outcome("raise", "none", NoSource, {})
    ELSE ScanAll(d, 1, fault)

-----------------------------------------------------------------------------
(* Titles, slugs and file names *)

\* slugify, line 27: text.strip().lower()
Lower(c) ==
    CASE c = "A" -> "a"
      [] c = "B" -> "b"
      [] c = "C" -> "c"
      [] OTHER -> c

SlugChars == {"a", "b", "c", "0", "1", "2"}

RECURSIVE LStrip(_, _)
LStrip(s, cs) ==
    IF s # <<>> /\ Head(s) \in cs THEN LStrip(Tail(s), cs) ELSE s

RECURSIVE RStrip(_, _)
RStrip(s, cs) ==
    IF s # <<>> /\ s[Len(s)] \in cs THEN RStrip(SubSeq(s, 1, Len(s) - 1), cs) ELSE s

Strip(s, cs) == RStrip(LStrip(s, cs), cs)

\* slugify, line 28: re.sub(r"[^a-z0-9]+", "-", s)
RECURSIVE SubNonSlug(_)
SubNonSlug(s) ==
    IF s = <<>> THEN <<>>
    ELSE IF Head(s) \in SlugChars THEN <<Head(s)>> \o SubNonSlug(Tail(s))
    ELSE <<"-">> \o SubNonSlug(LStrip(s, {c \in {s[i] : i \in 1..Len(s)} : c \notin SlugChars}))

\* slugify, line 29: re.sub(r"-+", "-", s)
RECURSIVE SubDashes(_)
SubDashes(s) ==
    IF s = <<>> THEN <<>>
    ELSE IF Head(s) = "-" THEN <<"-">> \o SubDashes(LStrip(s, {"-"}))
    ELSE <<Head(s)>> \o SubDashes(Tail(s))

slugify(text) ==
    LET stripped == Strip(text, {" "})
        lowered  == [i \in 1..Len(stripped) |-> Lower(stripped[i])]
    IN Strip(SubDashes(SubNonSlug(lowered)), {"-"})

\* IMAGES_DIR / slug, then Path.with_suffix('.' + ext), as a name in IMAGES_DIR.
\* A slug holds no '.', so with_suffix appends.
ImageName(slug, ext) == slug \o <<".", ext>>

\* f"/images/publications/{img_file.name}"
PicturePath(name) == <<"/images/publications/">> \o name

\* extract_fig1_yaml.py:167, the suffixes looked up after a successful call.
LookupExts == <<"png", "jpg", "jpeg">>

\* Lines 167-174: the first suffix of LookupExts whose file exists, from k on;
\* None when the loop ends without a break.
RECURSIVE FindCreated(_, _, _)
FindCreated(slug, dir, k) ==
    IF k > Len(LookupExts) THEN None
    ELSE IF ImageName(slug, LookupExts[k]) \in dir
         THEN PicturePath(ImageName(slug, LookupExts[k]))
         ELSE FindCreated(slug, dir, k + 1)

-----------------------------------------------------------------------------
(* Bounds and inputs *)

\* Longest link list of a record handed to the resolvers.
MaxLinks == 2

\* Most embedded images in a document handed to the extractors.
MaxImages == 3

\* Most records in publications.yml.
MaxPubs == 2

SeqsUpTo(S, n) == UNION {[1..k -> S] : k \in 0..n}

AbsUrl      == <<"http", "s:", "/", "/", "arxiv.org", "/", "abs", "/", "2401">>
AbsPdfUrl   == AbsUrl \o <<".", "pdf">>
ArxivPdfUrl == <<"http", "s:", "/", "/", "arxiv.org", "/", "pdf", "/", "2401">>
DirectUrl   == <<"http", "s:", "/", "/", "host", "/", "paper", ".", "pdf">>
RelUrl      == <<"/", "papers", "/", "paper", ".", "pdf">>

LinkTypes == {"pdf", "arxiv", "code"}

LinkUrls == {AbsUrl, AbsPdfUrl, ArxivPdfUrl, DirectUrl, RelUrl, None}

LinkPool == [type : LinkTypes, url : LinkUrls]

Title1 == <<" ", "A", " ", "b">>
Title2 == <<"C", "!", "?", "2">>

ResolvePapers ==
    {[title |-> Title1]}
        \cup {[title |-> Title1, links |-> l] : l \in SeqsUpTo(LinkPool, MaxLinks)}

ImagePool ==
    { [size |-> 5000, ext |-> "png"],
      [size |-> 10000, ext |-> "jpeg"],
      [size |-> 20000, ext |-> "png"] }

\* Documents of exactly p pages holding at most k embedded images.
RECURSIVE DocsOf(_, _)
DocsOf(p, k) ==
    IF p = 0 THEN {<<>>}
    ELSE UNION { { <<page>> \o rest : rest \in DocsOf(p - 1, k - Len(page)) } :
                 page \in SeqsUpTo(ImagePool, k) }

\* One page more than the window, so that a page lies outside it.
Documents == UNION {DocsOf(p, MaxImages) : p \in 0..(LookaheadPages + 1)}

-----------------------------------------------------------------------------
(* Variable groups *)

resolveVars == <<rpaper, ryaml, rhtml>>
extractVars == <<doc, eyaml, eremaining, efig1>>
batchVars == <<yamlFile, imagesDir, script, publications, pc, idx, pdf_url,
               updated, tmpdir, rerun, startFile, visited, writes, ended, last>>
vars == <<resolveVars, extractVars, batchVars>>

NotHandled == [idx |-> 0, kind |-> "none", wrote |-> {}, slug |-> <<>>]

ResolveIdle ==
    /\ rpaper = [title |-> Title1]
    /\ ryaml = NotRun
    /\ rhtml = NotRun

ExtractIdle ==
    /\ doc = <<>>
    /\ eyaml = NotExtracted
    /\ eremaining = NotExtracted
    /\ efig1 = NotExtracted

BatchIdle ==
    /\ yamlFile = <<>>
    /\ imagesDir = {}
    /\ script = "yaml"
    /\ publications = <<>>
    /\ pc = "idle"
    /\ idx = 1
    /\ pdf_url = None
    /\ updated = FALSE
    /\ tmpdir = FALSE
    /\ rerun = FALSE
    /\ startFile = <<>>
    /\ visited = {}
    /\ writes = 0
    /\ ended = "none"
    /\ last = NotHandled

-----------------------------------------------------------------------------
(* SpecResolve: the resolvers on one record *)

InitResolve ==
    /\ rpaper \in ResolvePapers
    /\ ryaml = NotRun
    /\ rhtml = NotRun
    /\ ExtractIdle
    /\ BatchIdle

\* The hrefs of the row's <a href=...> tags: the links that carry a URL.
RECURSIVE Hrefs(_)
Hrefs(links) ==
    IF links = <<>> THEN <<>>
    ELSE IF Head(links).url = None THEN Hrefs(Tail(links))
    ELSE <<Head(links).url>> \o Hrefs(Tail(links))

\* extract_fig1.main, lines 101-117: find_pdf_link, then normalize_pdf_url
\* unless no link was found.
resolve_html(paper) ==
    LET pdf_href == find_pdf_link(Hrefs(Get(paper, "links")))
    IN IF "links" \notin DOMAIN paper \/ ~Truthy(pdf_href) THEN Returned(None)
       ELSE Returned(normalize_pdf_url(pdf_href))

ResolveYaml ==
    /\ ryaml = NotRun
    /\ ryaml' = find_pdf_url(rpaper)
    /\ UNCHANGED <<rpaper, rhtml, extractVars, batchVars>>

ResolveHtml ==
    /\ rhtml = NotRun
    /\ rhtml' = resolve_html(rpaper)
    /\ UNCHANGED <<rpaper, ryaml, extractVars, batchVars>>

NextResolve == ResolveYaml \/ ResolveHtml

SpecResolve == InitResolve /\ [][NextResolve]_vars

-----------------------------------------------------------------------------
(* SpecExtract: the extractors on one well-formed document *)

InitExtract ==
    /\ doc \in Documents
    /\ eyaml = NotExtracted
    /\ eremaining = NotExtracted
    /\ efig1 = NotExtracted
    /\ ResolveIdle
    /\ BatchIdle

ExtractYaml ==
    /\ eyaml = NotExtracted
    /\ eyaml' = extract_first_image_from_pdf(doc, "none")
    /\ UNCHANGED <<doc, eremaining, efig1, resolveVars, batchVars>>

ExtractRemaining ==
    /\ eremaining = NotExtracted
    /\ eremaining' = extract_first_image_from_pdf_remaining(doc, "none")
    /\ UNCHANGED <<doc, eyaml, efig1, resolveVars, batchVars>>

ExtractFig1 ==
    /\ efig1 = NotExtracted
    /\ efig1' = extract_first_image_from_pdf_fig1(doc, "none")
    /\ UNCHANGED <<doc, eyaml, eremaining, resolveVars, batchVars>>

NextExtract == ExtractYaml \/ ExtractRemaining \/ ExtractFig1

SpecExtract == InitExtract /\ [][NextExtract]_vars

-----------------------------------------------------------------------------
(* Spec: the batch loop of extract_fig1_yaml.py and extract_remaining_figs.py *)

Scripts == {"yaml", "remaining"}

\* extract_remaining_figs.py:71-80, the manual title -> URL table (its keys
\* are stood for by Title1).
manual_pdfs == [t \in {Title1} |-> DirectUrl]

OldPicture == PicturePath(<<"o", "l", "d", ".", "png">>)

PdfLinks == <<[type |-> "pdf", url |-> DirectUrl]>>

\* links: - type: arxiv, url: (nothing), which YAML loads as None
NullLinks == <<[type |-> "arxiv", url |-> None]>>

\* The records publications.yml may hold: with or without the keys 'links'
\* and 'picture', inside and outside each script's filter.
RecordPool ==
    { [title |-> Title1, year |-> 2025, links |-> PdfLinks],
      [title |-> Title1, year |-> 2025, links |-> PdfLinks, picture |-> OldPicture],
      [title |-> Title1, year |-> 2024, links |-> PdfLinks],
      [title |-> Title2, year |-> 2025],
      [title |-> Title2, year |-> 2025, links |-> NullLinks] }

\* The documents a download may deliver.
BatchDocs ==
    { <<>>,
      << <<>> >>,
      << <<[size |-> 5000, ext |-> "png"], [size |-> 20000, ext |-> "png"]>> >>,
      << <<[size |-> 20000, ext |-> "jpeg"]>> >>,
      << <<[size |-> 20000, ext |-> "gif"]>> >> }

Init ==
    /\ yamlFile \in SeqsUpTo(RecordPool, MaxPubs)
    /\ imagesDir \in {{}, {ImageName(slugify(Title1), "png")}}
    /\ script = "yaml"
    /\ publications = <<>>
    /\ pc = "idle"
    /\ idx = 1
    /\ pdf_url = None
    /\ updated = FALSE
    /\ tmpdir = FALSE
    /\ rerun = FALSE
    /\ startFile = yamlFile
    /\ visited = {}
    /\ writes = 0
    /\ ended = "none"
    /\ last = NotHandled
    /\ ResolveIdle
    /\ ExtractIdle

\* Variant: the picture test never skips.
HasPicture_never(paper) == FALSE

\* Line 137 (and extract_remaining_figs.py:92): if paper.get('picture')
HasPicture(paper) == Truthy(Get(paper, "picture"))

\* Lines 133-134, and extract_remaining_figs.py:89-90: the records a script
\* leaves alone whatever they hold.
Filtered(s, paper) ==
    IF s = "yaml" THEN paper["year"] # 2025
    ELSE paper["title"] \notin DOMAIN manual_pdfs

\* Lines 144-147, and extract_remaining_figs.py:97: the URL to download.
ResolveUrl(s, paper) ==
    IF s = "yaml" THEN find_pdf_url(paper)
    ELSE Returned(manual_pdfs[paper["title"]])

\* paper['picture'] = value
SetPicture(paper, value) ==
    [k \in DOMAIN paper \cup {"picture"} |->
        IF k = "picture" THEN value ELSE paper[k]]

Handled(i, kind, wrote, slug) ==
    [idx |-> i, kind |-> kind, wrote |-> wrote, slug |-> slug]

runVars == <<rerun, startFile, writes>>

\* main up to the loop: load the file; extract_fig1_yaml.py exits on an
\* empty list (lines 120-122).
StartRun ==
    /\ pc = "idle"
    /\ \E s \in Scripts :
        /\ script' = s
        /\ IF s = "yaml" /\ yamlFile = <<>>
           THEN pc' = "idle" /\ ended' = "exited"
           ELSE pc' = "loop" /\ ended' = "running"
    /\ publications' = yamlFile
    /\ startFile' = yamlFile
    /\ rerun' = (ended # "none")
    /\ idx' = 1
    /\ updated' = FALSE
    /\ visited' = {}
    /\ writes' = 0
    /\ last' = NotHandled
    /\ UNCHANGED <<yamlFile, imagesDir, pdf_url, tmpdir, resolveVars, extractVars>>

\* The for loop ends: go to the final 'if updated'.
LoopEnd ==
    /\ pc = "loop"
    /\ idx > Len(publications)
    /\ pc' = "save"
    /\ UNCHANGED <<yamlFile, imagesDir, script, publications, idx, pdf_url, updated,
                   tmpdir, runVars, visited, ended, last, resolveVars, extractVars>>

\* One iteration up to the with statement: the filter, the picture test, the
\* URL.  find_pdf_url is called outside any try: its exception ends main.
Select ==
    /\ pc = "loop"
    /\ idx <= Len(publications)
    /\ visited' = visited \cup {idx}
    /\ LET paper == publications[idx]
           url == ResolveUrl(script, paper)
       IN IF Filtered(script, paper)
          THEN /\ idx' = idx + 1
               /\ UNCHANGED <<pc, pdf_url, tmpdir, ended, last>>
          ELSE IF HasPicture(paper)
          THEN /\ idx' = idx + 1
               /\ last' = Handled(idx, "has_picture", {}, <<>>)
               /\ UNCHANGED <<pc, pdf_url, tmpdir, ended>>
          ELSE IF url.raised
          THEN /\ pc' = "idle"
               /\ ended' = "crashed"
               /\ last' = Handled(idx, "uncaught", {}, <<>>)
               /\ UNCHANGED <<idx, pdf_url, tmpdir>>
          ELSE IF ~Truthy(url.value)
          THEN /\ idx' = idx + 1
               /\ last' = Handled(idx, "no_link", {}, <<>>)
               /\ UNCHANGED <<pc, pdf_url, tmpdir, ended>>
          ELSE /\ pc' = "fetch"
               /\ pdf_url' = url.value
               /\ tmpdir' = TRUE
               /\ UNCHANGED <<idx, ended, last>>
    /\ UNCHANGED <<yamlFile, imagesDir, script, publications, updated, runVars,
                   resolveVars, extractVars>>

\* Lines 157-161: download_file, whose exception is caught; 'continue' leaves
\* the with block, which removes the temporary directory.
Download ==
    /\ pc = "fetch"
    /\ \E ok \in BOOLEAN :
        IF ok
        THEN /\ pc' = "extract"
             /\ UNCHANGED <<idx, tmpdir, last>>
        ELSE /\ pc' = "loop"
             /\ idx' = idx + 1
             /\ tmpdir' = FALSE
             /\ last' = Handled(idx, "download_failed", {}, slugify(publications[idx]["title"]))
    /\ UNCHANGED <<yamlFile, imagesDir, script, publications, pdf_url, updated,
                   runVars, visited, ended, resolveVars, extractVars>>

\* The extractor of the running script.
ExtractFor(s, d, fault) ==
    IF s = "yaml" THEN extract_first_image_from_pdf(d, fault)
    ELSE extract_first_image_from_pdf_remaining(d, fault)

\* Lines 163-178: extract, look the created file up, set the picture; every
\* exception is caught; the with block ends and removes the directory.
Extract ==
    /\ pc = "extract"
    /\ \E d \in BatchDocs, fault \in Faults :
        LET slug == slugify(publications[idx]["title"])
            out == ExtractFor(script, d, fault)
            dir == imagesDir \cup {ImageName(slug, e) : e \in out.wrote}
            found == FindCreated(slug, dir, 1)
        IN /\ imagesDir' = dir
           /\ IF out.ret = "True" /\ found # None
              THEN /\ publications' =
                          [publications EXCEPT ![idx] = SetPicture(@, found)]
                   /\ updated' = TRUE
              ELSE UNCHANGED <<publications, updated>>
           /\ last' = Handled(idx,
                              CASE out.ret = "True" -> "success"
                                [] out.ret = "False" -> "no_image"
                                [] OTHER -> "extract_failed",
                              {ImageName(slug, e) : e \in out.wrote}, slug)
    /\ pc' = "loop"
    /\ idx' = idx + 1
    /\ tmpdir' = FALSE
    /\ UNCHANGED <<yamlFile, script, pdf_url, runVars, visited, ended,
                   resolveVars, extractVars>>

\* Variant: the file is dumped whatever the flag.
ShouldWrite_always(flag) == TRUE

\* Lines 181-188: if updated
ShouldWrite(flag) == flag

\* The end of main: dump the whole list when 'updated' is set.
Finish ==
    /\ pc = "save"
    /\ IF ShouldWrite(updated)
       THEN /\ yamlFile' = publications
            /\ writes' = writes + 1
       ELSE UNCHANGED <<yamlFile, writes>>
    /\ pc' = "idle"
    /\ ended' = "done"
    /\ UNCHANGED <<imagesDir, script, publications, idx, pdf_url, updated, tmpdir,
                   rerun, startFile, visited, last, resolveVars, extractVars>>

Next == StartRun \/ LoopEnd \/ Select \/ Download \/ Extract \/ Finish

Spec == Init /\ [][Next]_vars

-----------------------------------------------------------------------------
(* Properties of the resolvers (SpecResolve) *)

HasLinks == "links" \in DOMAIN rpaper

PdfLinkAt == {i \in 1..Len(rpaper["links"]) : rpaper["links"][i].type = "pdf"}

Least(S) == CHOOSE i \in S : \A j \in S : i <= j

\* An 'arxiv' link the loop stops at: its URL is null or names arxiv.org.
StopsAtArxiv(link) ==
    /\ link.type = "arxiv"
    /\ (link.url = None \/ Contains(link.url, Lit_arxiv_org))

ArxivBefore(k) == {j \in 1..(k - 1) : StopsAtArxiv(rpaper["links"][j])}

\* C1 as stated: whenever the link list holds a link of kind "pdf",
\* what find_pdf_url returns is the URL of a "pdf" link, unchanged, whatever
\* other links the list holds and in whatever order.
C1_PdfLinkWins ==
    (ryaml # NotRun /\ ~ryaml.raised /\ HasLinks /\ PdfLinkAt # {})
        => \E i \in PdfLinkAt : ryaml = Returned(rpaper["links"][i].url)

\* C1 amended: links are tried in list order.  The first "pdf" link's URL is
\* returned unchanged when no earlier link is an "arxiv" link whose URL is
\* null or names arxiv.org; otherwise the outcome is the one the earliest such
\* arxiv link gives on its own, and the "pdf" link is not consulted.
C1_FirstUsableLinkWins ==
    (ryaml # NotRun /\ HasLinks /\ PdfLinkAt # {})
        => LET links == rpaper["links"]
               k == Least(PdfLinkAt)
           IN IF ArxivBefore(k) = {}
              THEN ryaml = Returned(links[k].url)
              ELSE ryaml = find_pdf_url([links |-> <<links[Least(ArxivBefore(k))]>>])

\* C1 witness: an arXiv abstract link ahead of a "pdf" link, and the result
\* is the rewritten arXiv URL.
C1_Witness ==
    /\ HasLinks
    /\ rpaper["links"] = <<[type |-> "arxiv", url |-> AbsUrl],
                           [type |-> "pdf", url |-> DirectUrl]>>
    /\ ryaml = Returned(ArxivPdfUrl \o Lit_dotpdf)

\* The record's only link is an arXiv abstract-page link.
OnlyAbsLink ==
    /\ HasLinks
    /\ Len(rpaper["links"]) = 1
    /\ rpaper["links"][1].type = "arxiv"
    /\ rpaper["links"][1].url # None
    /\ StartsWith(rpaper["links"][1].url, Lit_http)
    /\ Contains(rpaper["links"][1].url, Lit_arxiv_abs \o <<"/">>)

\* The URL with 'abs' rewritten to 'pdf' and '.pdf' at its end once.
AbsToPdfOnce(url) ==
    LET w == Replace(url, Lit_abs, Lit_pdfseg)
    IN IF EndsWith(w, Lit_dotpdf) THEN w ELSE w \o Lit_dotpdf

\* C2: for a record whose only link is an arXiv abstract-page link, each
\* resolver returns the URL with the 'abs' segment replaced by 'pdf' and
\* ending in '.pdf' exactly once, whether or not the input ends in '.pdf'.
C2_AbsRewrittenSuffixOnce ==
    OnlyAbsLink =>
        /\ ryaml # NotRun => ryaml = Returned(AbsToPdfOnce(rpaper["links"][1].url))
        /\ rhtml # NotRun => rhtml = Returned(AbsToPdfOnce(rpaper["links"][1].url))

-----------------------------------------------------------------------------
(* Properties of the extractors (SpecExtract) *)

\* Positions <<page, index>> of the images of the first LookaheadPages pages
\* whose size is not below the threshold.
Qualifying(d) ==
    UNION { { <<p, i>> : i \in {j \in 1..Len(d[p]) : d[p][j].size >= SizeThreshold} } :
            p \in 1..Min(LookaheadPages, Len(d)) }

Before(a, b) == a[1] < b[1] \/ (a[1] = b[1] /\ a[2] < b[2])

FirstOf(S) == CHOOSE a \in S : \A b \in S : a = b \/ Before(a, b)

PagesWithImages(d) == {p \in 1..Len(d) : d[p] # <<>>}

\* First match wins inside the window: the first qualifying image is the one
\* saved, alone, under its own suffix; without one no embedded image is saved.
WindowedRule(out, d) ==
    out # NotExtracted =>
        IF Qualifying(d) # {}
        THEN LET a == FirstOf(Qualifying(d))
             IN out = Outcome("True", "embedded", a, {d[a[1]][a[2]].ext})
        ELSE out.kind # "embedded"

\* C3 as stated: each of the three scripts saves the first image, in page
\* then embedding order, of the first 3 pages that is not below 10 KB, skips
\* the smaller ones before it and never saves an image of a later page.
C3_FirstSizeableInWindow ==
    /\ WindowedRule(eyaml, doc)
    /\ WindowedRule(eremaining, doc)
    /\ WindowedRule(efig1, doc)

\* C3 amended: the rule holds of extract_fig1_yaml.py and
\* extract_remaining_figs.py; extract_fig1.py has neither window nor size
\* filter and saves images[0] of the first page, anywhere in the document,
\* that holds an image.
C3_FirstSizeableInWindowYaml ==
    /\ WindowedRule(eyaml, doc)
    /\ WindowedRule(eremaining, doc)
    /\ efig1 # NotExtracted =>
          IF PagesWithImages(doc) # {}
          THEN LET p == Least(PagesWithImages(doc))
               IN efig1 = Outcome("True", "embedded", <<p, 1>>, {doc[p][1].ext})
          ELSE efig1.kind # "embedded"

\* C3 witness: a 5 KB image followed by a 20 KB image on page 1; the YAML
\* script saved the second, extract_fig1.py the first.
C3_Witness ==
    /\ Len(doc) >= 1
    /\ Len(doc[1]) = 2
    /\ doc[1][1].size = 5000
    /\ doc[1][2].size = 20000
    /\ eyaml.src = <<1, 2>>
    /\ eremaining.src = <<1, 2>>
    /\ efig1.src = <<1, 1>>

Rasterized == Outcome("True", "raster", NoSource, {"png"})

NothingProduced == Outcome("False", "none", NoSource, {})

\* With no qualifying image in the window the outcome depends on the page
\* count alone.
FallbackRule(out, d) ==
    (out # NotExtracted /\ Qualifying(d) = {}) =>
        IF Len(d) >= 1 THEN out = Rasterized ELSE out = NothingProduced

\* C4 as stated: in each script, when no page of the first 3 yields a
\* qualifying image, a document with a page is rasterized (page 1, .png, no
\* embedded image, success) and a document without pages fails, no file made.
C4_FallbackByPageCount ==
    /\ FallbackRule(eyaml, doc)
    /\ FallbackRule(eremaining, doc)
    /\ FallbackRule(efig1, doc)

\* C4 amended: so for extract_fig1_yaml.py and extract_remaining_figs.py;
\* extract_fig1.py falls back only when no page of the whole document holds
\* any embedded image, and otherwise saves an embedded image.
C4_FallbackByPageCountYaml ==
    /\ FallbackRule(eyaml, doc)
    /\ FallbackRule(eremaining, doc)
    /\ efig1 # NotExtracted =>
          IF PagesWithImages(doc) = {}
          THEN IF Len(doc) >= 1 THEN efig1 = Rasterized ELSE efig1 = NothingProduced
          ELSE efig1.kind = "embedded"

\* C4 witness: the only image large enough lies on page 4; the YAML scripts
\* rasterized page 1 and extract_fig1.py saved the embedded image.
C4_Witness ==
    /\ Len(doc) = LookaheadPages + 1
    /\ Qualifying(doc) = {}
    /\ doc[LookaheadPages + 1] # <<>>
    /\ doc[LookaheadPages + 1][1].size = 20000
    /\ eyaml = Rasterized
    /\ eremaining = Rasterized
    /\ efig1.kind = "embedded"

-----------------------------------------------------------------------------
(* Properties of the batch runs (Spec) *)

\* The record carries a picture.
Pic(r) == Truthy(Get(r, "picture"))

Loaded == ended # "none"

Positions == 1..Len(startFile)

\* The records the running script would handle if they had no picture.
Eligible(i) ==
    IF script = "yaml" THEN startFile[i]["year"] = 2025
    ELSE startFile[i]["title"] \in DOMAIN manual_pdfs

\* The records that gained a picture in the current run.
Gained == {i \in Positions : ~Pic(startFile[i]) /\ Pic(publications[i])}

C6_PictureKept ==
    Loaded =>
        \A i \in Positions :
            Pic(startFile[i]) =>
                /\ publications[i] = startFile[i]
                /\ yamlFile[i] = startFile[i]
                /\ last.idx = i => last.kind = "has_picture"

\* C6 witness: a run wrote the file while it held a record, inside the
\* script's filter and visited by the loop, that already carried a picture.
C6_Witness ==
    /\ ended = "done"
    /\ writes = 1
    /\ \E i \in Positions : Pic(startFile[i]) /\ Eligible(i) /\ i \in visited

\* C7: once the file is loaded, every failure in the handling of a record is
\* caught: the run never ends on an exception, and a run that has ended has
\* visited every record and taken the final write-or-skip step.
C7_EveryRecordVisited ==
    /\ ended # "crashed"
    /\ ended = "done" => visited = 1..Len(publications)

FailureKinds == {"no_link", "download_failed", "extract_failed", "uncaught"}

\* C9: once the handling of a record is over its temporary directory is
\* gone, and when the handling ended in failure no image file, complete or
\* partial, was created for the record in the images directory.
C9_NothingLeftAfterFailure ==
    pc \in {"idle", "loop", "save"} =>
        /\ ~tmpdir
        /\ last.kind \in FailureKinds => last.wrote = {}

\* C10: when the extractor reported success for a record, the record's
\* picture is the path of the file that this extraction wrote.
C10_PictureIsFileWritten ==
    last.kind = "success" =>
        \E name \in last.wrote :
            /\ last.wrote = {name}
            /\ Get(publications[last.idx], "picture") = PicturePath(name)

=============================================================================
